---- MODULE Spec2Model ----
(***************************************************************************)
(* Business discovery pipeline: the SQLite store of discovered businesses, *)
(* the lead scorer, the per-source discovery passes and the alert          *)
(* dispatch polls run by the scheduler, the dashboard and the CLI.         *)
(*                                                                         *)
(* Python strings are sequences of one-character strings, so that          *)
(* str.lower(), `in` (substring) and len() are computed, not assumed.      *)
(***************************************************************************)
EXTENDS Integers, Sequences, FiniteSets, TLC

VARIABLES
    businesses,       \* rows of table `businesses`, in rowid order (row i has id i)
    search_history,   \* number of rows of table `search_history`
    clock,            \* the value datetime.now() returns next
    min_score,        \* detection.min_confidence_score of keywords.yaml, if configured
    batch_mode,       \* alerts.batch_mode of settings.yaml
    pass,             \* per runner: the discovery pass it is executing
    poll,             \* the alert job of the scheduler: the dispatch poll it is executing
    handed,           \* record id -> number of times the record was handed to the notifier
    delivered,        \* ids of the records for which a notifier attempt succeeded
    started,          \* discovery passes and dispatch polls started so far
    scorer,           \* a LeadScorer: its rule tables, calls of score_business, returns
    db_call,          \* the latest call a client made on the DatabaseHandler directly
    task_scheduler,   \* the TaskScheduler: its enabled flags, its jobs, whether it runs
    credentials,      \* per source and for the alert channels: are the credentials set
    manual            \* the run of `python main.py discover`: where run_manual_discovery is

vars == <<businesses, search_history, clock, min_score, batch_mode, pass, poll,
          handed, delivered, started, scorer, db_call, task_scheduler, credentials,
          manual>>

-----------------------------------------------------------------------------
(* Bounds of the model *)

MaxResults == 2     \* results one discovery pass obtains from its source
MaxPasses == 2      \* discovery passes started in one behaviour
MaxPolls == 2       \* dispatch polls started in one behaviour
MaxScoreCalls == 2  \* calls of score_business on one LeadScorer in one behaviour

-----------------------------------------------------------------------------
(* Strings *)

Min(a, b) == IF a < b THEN a ELSE b

\* str.lower() on one character
LowerChar(c) ==
    CASE c = "A" -> "a" [] c = "B" -> "b" [] c = "C" -> "c" [] c = "D" -> "d"
      [] c = "G" -> "g" [] c = "K" -> "k" [] c = "L" -> "l" [] c = "N" -> "n"
      [] c = "U" -> "u" [] OTHER -> c

\* str.lower()
Lower(s) == [i \in 1..Len(s) |-> LowerChar(s[i])]

\* `pat in text` for Python strings: substring
Contains(text, pat) ==
    \E i \in 0..(Len(text) - Len(pat)) : SubSeq(text, i + 1, i + Len(pat)) = pat

\* ' '.join(fields)
RECURSIVE Join(_)
Join(fields) ==
    IF fields = <<>> THEN <<>>
    ELSE IF Len(fields) = 1 THEN fields[1]
    ELSE fields[1] \o <<" ">> \o Join(Tail(fields))

\* [p for p in pats if p.lower() in text]
RECURSIVE LowerMatches(_, _)
LowerMatches(pats, text) ==
    IF pats = <<>> THEN <<>>
    ELSE IF Contains(text, Lower(Head(pats)))
         THEN <<Head(pats)>> \o LowerMatches(Tail(pats), text)
         ELSE LowerMatches(Tail(pats), text)

\* [p for p in pats if p in text]
RECURSIVE ExactMatches(_, _)
ExactMatches(pats, text) ==
    IF pats = <<>> THEN <<>>
    ELSE IF Contains(text, Head(pats))
         THEN <<Head(pats)>> \o ExactMatches(Tail(pats), text)
         ELSE ExactMatches(Tail(pats), text)

\* s[:n]
Prefix(s, n) == SubSeq(s, 1, Min(n, Len(s)))

\* A string of n filler characters
Pad(n) == [i \in 1..n |-> "x"]

\* dict.get(key, default) on a candidate: `missing` holds the keys the dict lacks
Get(d, key, default) == IF key \in d.missing THEN default ELSE d[key]

\* dict.get(key): None for a missing key
None == <<"None">>
GetOrNone(d, key) == Get(d, key, None)

\* Python truthiness of a string or None
Truthy(v) == v # None /\ v # <<>>

-----------------------------------------------------------------------------
(* Lead scorer (src/core/lead_scorer.py).  Rule tables are parameters:      *)
(* location_signals is the dict of keywords.yaml's location_signals,      *)
(* categories the dict of its business_categories.                        *)

\* dict.get(key, default) on a dict of the configuration
CfgGet(d, key, default) == IF key \in DOMAIN d THEN d[key] ELSE default

EmptyDict == [k \in {} |-> <<>>]

\* Mutant: 15 points for every city found
MutCityPerMatch(text, location_signals) ==
    LET countries == LowerMatches(CfgGet(location_signals, "country", <<>>), text)
        cities_found == LowerMatches(CfgGet(location_signals, "major_cities", <<>>), text)
        patterns == ExactMatches(CfgGet(location_signals, "phone_patterns", <<>>), text)
        score == (IF countries # <<>> THEN 10 ELSE 0)
                 + 15 * Len(cities_found)
                 + (IF patterns # <<>> THEN 5 ELSE 0)
    IN  [score |-> Min(score, 30), signals |-> <<>>]

\* Mutant: a city is worth 10 points
MutCityTenPoints(text, location_signals) ==
    LET countries == LowerMatches(CfgGet(location_signals, "country", <<>>), text)
        cities_found == LowerMatches(CfgGet(location_signals, "major_cities", <<>>), text)
        patterns == ExactMatches(CfgGet(location_signals, "phone_patterns", <<>>), text)
        score == (IF countries # <<>> THEN 10 ELSE 0)
                 + (IF cities_found # <<>> THEN 10 ELSE 0)
                 + (IF patterns # <<>> THEN 5 ELSE 0)
    IN  [score |-> Min(score, 30), signals |-> <<>>]

_score_location(text, location_signals) ==
    LET countries == LowerMatches(CfgGet(location_signals, "country", <<>>), text)
        cities_found == LowerMatches(CfgGet(location_signals, "major_cities", <<>>), text)
        patterns == ExactMatches(CfgGet(location_signals, "phone_patterns", <<>>), text)
        score == (IF countries # <<>> THEN 10 ELSE 0)
                 + (IF cities_found # <<>> THEN 15 ELSE 0)
                 + (IF patterns # <<>> THEN 5 ELSE 0)
        signals == (IF countries # <<>> THEN << <<"Country", Head(countries)>> >> ELSE <<>>)
                   \o (IF cities_found # <<>>
                       THEN << <<"Cities", Prefix(cities_found, 3)>> >> ELSE <<>>)
                   \o (IF patterns # <<>>
                       THEN << <<"Phone pattern", Head(patterns)>> >> ELSE <<>>)
    IN  [score |-> Min(score, 30), signals |-> signals]

_score_category(text, category, categories) ==
    IF ~Truthy(category) THEN [score |-> 0, signals |-> <<>>]
    ELSE
        LET category_data == CfgGet(categories, category, EmptyDict)
            keywords == CfgGet(category_data, "keywords", <<>>)
            matches == LowerMatches(keywords, text)
        IN  IF matches # <<>>
            THEN [score |-> Min(Len(matches) * 5, 25),
                  signals |-> << <<"Category keywords", Prefix(matches, 3)>> >>]
            ELSE [score |-> 0, signals |-> <<>>]

\* Mutant: the email is tested before the phone
MutEmailFirst(business_data) ==
    LET phone == Truthy(GetOrNone(business_data, "phone"))
        email == Truthy(GetOrNone(business_data, "email"))
    IN  [score |-> (IF phone THEN 10 ELSE 0) + (IF email THEN 10 ELSE 0),
         signals |-> (IF email THEN << <<"Has email">> >> ELSE <<>>)
                     \o (IF phone THEN << <<"Has phone">> >> ELSE <<>>)]

_score_contact_info(business_data) ==
    LET phone == Truthy(GetOrNone(business_data, "phone"))
        email == Truthy(GetOrNone(business_data, "email"))
    IN  [score |-> (IF phone THEN 10 ELSE 0) + (IF email THEN 10 ELSE 0),
         signals |-> (IF phone THEN << <<"Has phone">> >> ELSE <<>>)
                     \o (IF email THEN << <<"Has email">> >> ELSE <<>>)]

\* Mutant: a page without a creation date is penalised
MutFreshnessPenalty(page_created_date) ==
    IF ~Truthy(page_created_date) THEN -15 ELSE 15

_score_freshness(page_created_date) ==
    IF ~Truthy(page_created_date) THEN 0 ELSE 15

\* Mutant: len(description) >= 50
MutQualityFrom50(business_data) ==
    (IF Len(Get(business_data, "description", <<>>)) >= 50 THEN 5 ELSE 0)
    + (IF Truthy(GetOrNone(business_data, "business_name")) THEN 5 ELSE 0)

_score_content_quality(business_data) ==
    (IF Len(Get(business_data, "description", <<>>)) > 50 THEN 5 ELSE 0)
    + (IF Truthy(GetOrNone(business_data, "business_name")) THEN 5 ELSE 0)

\* Mutant: score > 80
MutHighAbove80(score, category, categories) ==
    LET category_data == CfgGet(categories, category, EmptyDict)
        category_priority == CfgGet(category_data, "priority", "medium")
    IN  IF score > 80 \/ category_priority = "high" THEN "high"
        ELSE IF score >= 60 THEN "medium"
        ELSE "low"

\* Mutant: 'medium' starts at 65
MutMediumFrom65(score, category, categories) ==
    LET category_data == CfgGet(categories, category, EmptyDict)
        category_priority == CfgGet(category_data, "priority", "medium")
    IN  IF score >= 80 \/ category_priority = "high" THEN "high"
        ELSE IF score >= 65 THEN "medium"
        ELSE "low"

\* Mutant: the branches of 'medium' and 'low' are exchanged
MutMediumLowExchanged(score, category, categories) ==
    LET category_data == CfgGet(categories, category, EmptyDict)
        category_priority == CfgGet(category_data, "priority", "medium")
    IN  IF score >= 80 \/ category_priority = "high" THEN "high"
        ELSE IF score >= 60 THEN "low"
        ELSE "medium"

_determine_priority(score, category, categories) ==
    LET category_data == CfgGet(categories, category, EmptyDict)
        category_priority == CfgGet(category_data, "priority", "medium")
    IN  IF score >= 80 \/ category_priority = "high" THEN "high"
        ELSE IF score >= 60 THEN "medium"
        ELSE "low"

\* The result is the input dict with three keys added; the model keeps the input
\* under `data`.
score_business(business_data, location_signals, categories) ==
    LET text_fields == << Get(business_data, "business_name", <<>>),
                          Get(business_data, "description", <<>>),
                          Get(business_data, "location", <<>>),
                          Get(business_data, "category", <<>>) >>
        combined_text == Lower(Join(text_fields))
        category == GetOrNone(business_data, "category")
        loc == _score_location(combined_text, location_signals)
        cat == _score_category(combined_text, category, categories)
        contact == _score_contact_info(business_data)
        freshness_score == _score_freshness(GetOrNone(business_data, "page_created_date"))
        quality_score == _score_content_quality(business_data)
        score == loc.score + cat.score + contact.score + freshness_score + quality_score
        signals == loc.signals \o cat.signals \o contact.signals
                   \o (IF freshness_score > 0
                       THEN << <<"Freshness", freshness_score>> >> ELSE <<>>)
                   \o (IF quality_score > 0
                       THEN << <<"Content quality", quality_score>> >> ELSE <<>>)
    IN  [data |-> business_data,
         confidence_score |-> Min(score, 100),
         priority |-> _determine_priority(score, category, categories),
         scoring_signals |-> signals]

-----------------------------------------------------------------------------
(* Configuration (config/keywords.yaml, read through config_manager.py)    *)

\* keywords.yaml: location_signals
LocationSignals ==
    [country |-> << <<"N", "g">> >>,
     major_cities |-> << <<"L", "a">>, <<"A", "b">> >>,
     phone_patterns |-> << <<"+", "2">> >>]

Facebook == <<"F", "b">>
LinkedIn == <<"L", "i">>

Food == <<"f", "d">>
Tech == <<"t", "c">>

\* keywords.yaml: business_categories
Categories ==
    (Food :> [keywords |-> << <<"b", "k">>, <<"c", "d">>, <<"d", "n">>,
                              <<"g", "l">>, <<"K", "u">> >>,
              priority |-> "medium"])
    @@ (Tech :> [keywords |-> << <<"a", "d">> >>, priority |-> "high"])

\* config.get_detection_settings().get('min_confidence_score', 60)
DefaultMinConfidenceScore == 60
NotConfigured == -1
MinScoreSettings == {NotConfigured, 50}
get_min_confidence_score(setting) ==
    IF setting = NotConfigured THEN DefaultMinConfidenceScore ELSE setting

\* Other contents of keywords.yaml a LeadScorer may be built from: no
\* phone_patterns key; no location signal at all
NoPhonePatterns ==
    [country |-> << <<"N", "g">> >>, major_cities |-> << <<"L", "a">>, <<"A", "b">> >>]
NoSignals == [country |-> <<>>]

\* Food with six keywords (one listed twice) and no priority key; Tech with a
\* priority and no keywords key
SixKeywords ==
    (Food :> [keywords |-> << <<"b", "k">>, <<"c", "d">>, <<"d", "n">>,
                              <<"g", "l">>, <<"K", "u">>, <<"B", "K">> >>])
    @@ (Tech :> [priority |-> "high"])

\* Several aliases of one country, city and phone prefix, which occur together
ManyAliases ==
    [country |-> << <<"N", "g">>, <<"N">> >>,
     major_cities |-> << <<"L", "a">>, <<"L">> >>,
     phone_patterns |-> << <<"+", "2">>, <<"+">> >>]

\* Food with one keyword listed twice
DuplicateKeyword ==
    (Food :> [keywords |-> << <<"b", "k">>, <<"b", "k">> >>, priority |-> "medium"])
    @@ (Tech :> [keywords |-> << <<"a", "d">> >>, priority |-> "high"])

\* The rule tables a LeadScorer is built from: location_signals, categories
RuleTables ==
    {<<LocationSignals, Categories>>, <<NoPhonePatterns, Categories>>,
     <<LocationSignals, SixKeywords>>, <<NoSignals, SixKeywords>>,
     <<ManyAliases, DuplicateKeyword>>}

-----------------------------------------------------------------------------
(* Candidates: what the source collaborators hand to a pass                *)

U1 == <<"u", "/", "a">>
U1Upper == <<"U", "/", "A">>
U2 == <<"u", "/", "b">>

Base ==
    [page_url |-> U1, business_name |-> <<"B", "k">>, platform |-> Facebook,
     category |-> Food, location |-> <<>>, phone |-> <<>>, email |-> <<>>,
     description |-> <<>>, page_created_date |-> <<>>, missing |-> {}]

\* Descriptions: country, city and phone pattern, n food keywords, filler
Desc4 == Join(<< <<"N", "G">>, <<"l", "a">>, <<"+", "2">>, <<"B", "k">>, <<"c", "d">>,
                 <<"d", "n">>, <<"g", "l">>, Pad(40) >>)
Desc5 == Join(<< <<"n", "g">>, <<"L", "A">>, <<"+", "2">>, <<"b", "k">>, <<"c", "d">>,
                 <<"d", "n">>, <<"g", "l">>, <<"k", "u">>, Pad(40) >>)
Desc3 == Join(<< <<"n", "g">>, <<"l", "a">>, <<"+", "2">>, <<"b", "k">>, <<"c", "d">>,
                 <<"d", "n">>, Pad(40) >>)

\* What GoogleScraper._extract_from_search_result builds from one search result:
\* every key present, phone, email and page_created_date empty.
GoogleCandidates ==
    << [Base EXCEPT !.page_url = U1, !.description = Desc4, !.location = <<"L", "a">>],
       [Base EXCEPT !.page_url = U1Upper, !.description = Desc5,
                    !.platform = LinkedIn, !.location = <<"L", "a">>],
       [Base EXCEPT !.page_url = U2, !.description = Desc3, !.location = <<"L", "a">>] >>

\* What FacebookScraper.search_pages returns, with result['category'] set by the
\* pass: dicts of the source collaborator, which may lack keys.
FacebookCandidates ==
    << [Base EXCEPT !.page_url = U1, !.category = Tech, !.description = Desc3,
                    !.phone = <<"0", "8">>, !.email = <<"a", "@">>,
                    !.page_created_date = <<"2", "4">>],
       [Base EXCEPT !.page_url = U2, !.category = Tech, !.description = Desc3,
                    !.phone = <<"0", "8">>, !.email = <<"a", "@">>,
                    !.page_created_date = <<"2", "4">>,
                    !.missing = {"business_name"}],
       [Base EXCEPT !.page_url = U2, !.category = Tech, !.location = <<"A", "b">>] >>

\* What LinkedInScraper.get_company_details returns for a company URL, with the
\* category process_company_url sets: every key present, phone, email and
\* page_created_date empty, business_name empty when the page has no title.
LinkedInCandidates ==
    << [Base EXCEPT !.page_url = U2, !.platform = LinkedIn, !.description = Desc5,
                    !.location = <<"L", "a">>],
       [Base EXCEPT !.page_url = U1Upper, !.platform = LinkedIn, !.description = Desc5,
                    !.business_name = <<>>, !.location = <<"L", "a">>] >>

\* The dicts score_business is called with, field by field.  "Lagos Bakery" in
\* "Lagos, Nigeria", with a description of 51 characters naming one food keyword,
\* is candidate 1 of the scenarios; descriptions of 50 and 51 characters sit on
\* either side of the content-quality test.
DescScenario == Join(<< <<"b", "k">>, <<"l", "a">>, Pad(45) >>)
Descriptions == {<<>>, Pad(50), DescScenario, Desc5}
BusinessData ==
    {[Base EXCEPT !.business_name = name, !.description = description,
                  !.location = location, !.category = category, !.phone = phone,
                  !.email = email, !.page_created_date = page_created_date,
                  !.missing = missing] :
        name \in {<<>>, <<"L", "a", " ", "B", "k">>},
        description \in Descriptions,
        location \in {<<>>, <<"L", "a", ",", " ", "N", "g">>},
        category \in {Food, Tech},
        phone \in {<<>>, <<"0", "8">>},
        email \in {<<>>, <<"a", "@">>},
        page_created_date \in {<<>>, <<"2", "4">>},
        missing \in {{}, {"business_name", "category", "phone"}}}

\* scorer.score_business(business_data) for each LeadScorer and each dict
ScoreTable ==
    [tables \in RuleTables |->
        [business_data \in BusinessData |->
            score_business(business_data, tables[1], tables[2])]]

-----------------------------------------------------------------------------
(* Store (src/core/database.py)                                            *)

\* Mutant: the URL is hashed as given, without .lower()
MutHashCaseSensitive(page_url) == <<"md5", page_url>>

\* hashlib.md5(page_url.lower().encode()).hexdigest(): the digest is modelled as
\* an injective function of the lower-cased URL.
generate_hash(page_url) == <<"md5", Lower(page_url)>>

\* Mutant: SELECT COUNT(*) FROM businesses WHERE page_url = ?
MutExistsByUrl(db, page_url) ==
    \E i \in 1..Len(db) : db[i].page_url = page_url

\* SELECT COUNT(*) FROM businesses WHERE hash = ?  ... count > 0
business_exists(db, page_url) ==
    \E i \in 1..Len(db) : db[i].hash = generate_hash(page_url)

\* Mutant: last_updated is taken from a second, later datetime.now()
MutLastUpdatedLater(db, scored, now) ==
    [id |-> Len(db) + 1,
     business_name |-> GetOrNone(scored.data, "business_name"),
     platform |-> GetOrNone(scored.data, "platform"),
     page_url |-> GetOrNone(scored.data, "page_url"),
     category |-> GetOrNone(scored.data, "category"),
     location |-> GetOrNone(scored.data, "location"),
     phone |-> GetOrNone(scored.data, "phone"),
     email |-> GetOrNone(scored.data, "email"),
     description |-> GetOrNone(scored.data, "description"),
     confidence_score |-> scored.confidence_score,
     priority |-> scored.priority,
     page_created_date |-> GetOrNone(scored.data, "page_created_date"),
     discovered_date |-> now,
     last_updated |-> now + 1,
     hash |-> generate_hash(GetOrNone(scored.data, "page_url")),
     alerted |-> FALSE]

\* The row add_business hands to INSERT for a scored dict
NewRow(db, scored, now) ==
    [id |-> Len(db) + 1,
     business_name |-> GetOrNone(scored.data, "business_name"),
     platform |-> GetOrNone(scored.data, "platform"),
     page_url |-> GetOrNone(scored.data, "page_url"),
     category |-> GetOrNone(scored.data, "category"),
     location |-> GetOrNone(scored.data, "location"),
     phone |-> GetOrNone(scored.data, "phone"),
     email |-> GetOrNone(scored.data, "email"),
     description |-> GetOrNone(scored.data, "description"),
     confidence_score |-> scored.confidence_score,
     priority |-> scored.priority,
     page_created_date |-> GetOrNone(scored.data, "page_created_date"),
     discovered_date |-> now,
     last_updated |-> now,
     hash |-> generate_hash(GetOrNone(scored.data, "page_url")),
     alerted |-> FALSE]

\* Mutant: column hash declared without UNIQUE
MutNoUniqueHash(db, row) ==
    /\ row.business_name # None
    /\ row.platform # None
    /\ row.page_url # None
    /\ \A i \in 1..Len(db) : db[i].page_url # row.page_url

\* The constraints of CREATE TABLE businesses: NOT NULL columns, page_url UNIQUE,
\* hash UNIQUE.  A row that breaks one makes INSERT raise sqlite3.IntegrityError.
ConstraintsHold(db, row) ==
    /\ row.business_name # None
    /\ row.platform # None
    /\ row.page_url # None
    /\ \A i \in 1..Len(db) : db[i].page_url # row.page_url
    /\ \A i \in 1..Len(db) : db[i].hash # row.hash

\* Mutant: the UPDATE lacks its WHERE clause's effect on the other rows' flags:
\* SET alerted = (id = ?)
MutMarkOnlyThis(db, business_id) ==
    [i \in 1..Len(db) |-> [db[i] EXCEPT !.alerted = (db[i].id = business_id)]]

\* Mutant: the UPDATE has no WHERE clause
MutMarkEveryRow(db, business_id) ==
    [i \in 1..Len(db) |-> [db[i] EXCEPT !.alerted = TRUE]]

\* Mutant: SET alerted = NOT alerted
MutMarkToggles(db, business_id) ==
    [i \in 1..Len(db) |->
        IF db[i].id = business_id THEN [db[i] EXCEPT !.alerted = ~@] ELSE db[i]]

\* Mutant: WHERE id >= ?
MutMarkFromId(db, business_id) ==
    [i \in 1..Len(db) |->
        IF db[i].id >= business_id THEN [db[i] EXCEPT !.alerted = TRUE] ELSE db[i]]

\* UPDATE businesses SET alerted = 1 WHERE id = ?
mark_as_alerted(db, business_id) ==
    [i \in 1..Len(db) |->
        IF db[i].id = business_id THEN [db[i] EXCEPT !.alerted = TRUE] ELSE db[i]]

\* ORDER BY confidence_score DESC, discovered_date DESC
Before(a, b) ==
    \/ a.confidence_score > b.confidence_score
    \/ /\ a.confidence_score = b.confidence_score
       /\ a.discovered_date > b.discovered_date

RECURSIVE InsertSorted(_, _)
InsertSorted(sorted, row) ==
    IF sorted = <<>> THEN <<row>>
    ELSE IF Before(row, Head(sorted)) THEN <<row>> \o sorted
    ELSE <<Head(sorted)>> \o InsertSorted(Tail(sorted), row)

RECURSIVE OrderBy(_)
OrderBy(rows) ==
    IF rows = <<>> THEN <<>>
    ELSE InsertSorted(OrderBy(Tail(rows)), Head(rows))

\* Mutant: the query has no ORDER BY and returns the rows in rowid order
MutNoOrderBy(db) == SelectSeq(db, LAMBDA row : ~row.alerted)

\* Mutant: WHERE alerted = 1
MutSelectAlerted(db) == OrderBy(SelectSeq(db, LAMBDA row : row.alerted))

\* SELECT * FROM businesses WHERE alerted = 0 ORDER BY ...
get_unalereted_businesses(db) ==
    OrderBy(SelectSeq(db, LAMBDA row : ~row.alerted))

-----------------------------------------------------------------------------
(* Discovery passes.  A runner is an execution context that runs passes    *)
(* one at a time: a discovery job of the BackgroundScheduler (add_job      *)
(* without max_instances: one instance of a job at a time) or the          *)
(* dashboard's event loop, whose trigger handlers block it.                *)

\* "company_url" stands for a caller of LinkedInScraper.process_company_url.
\* "manual" is the process of `python main.py discover`.
Runners ==
    {"job_facebook", "job_linkedin", "job_google", "dashboard", "company_url", "manual"}
Jobs == {"job_facebook", "job_linkedin", "job_google"}
Sources == {"facebook", "linkedin", "google"}

JobSource(r) ==
    CASE r = "job_facebook" -> "facebook"
      [] r = "job_linkedin" -> "linkedin"
      [] r = "job_google" -> "google"

CandidatesOf(source) ==
    CASE source = "facebook" -> FacebookCandidates
      [] source = "google" -> GoogleCandidates
      [] source = "company_url" -> LinkedInCandidates
      [] OTHER -> <<>>

\* The result lists a source may hand to one pass: candidate indexes, in order
ResultLists(source) ==
    UNION {[1..n -> DOMAIN CandidatesOf(source)] : n \in 0..MaxResults}

\* scorer.score_business(candidate) with the scorer's rule tables, per candidate
GoogleScored ==
    [c \in DOMAIN GoogleCandidates |->
        score_business(GoogleCandidates[c], LocationSignals, Categories)]
FacebookScored ==
    [c \in DOMAIN FacebookCandidates |->
        score_business(FacebookCandidates[c], LocationSignals, Categories)]
LinkedInScored ==
    [c \in DOMAIN LinkedInCandidates |->
        score_business(LinkedInCandidates[c], LocationSignals, Categories)]
Scored(source, c) ==
    CASE source = "google" -> GoogleScored[c]
      [] source = "facebook" -> FacebookScored[c]
      [] source = "company_url" -> LinkedInScored[c]

\* pc: where the pass is; results: the results not yet finished, the head being the
\* one in hand; discovered: the list `discovered`; exc: the exception that ended the
\* pass; last_add: the candidate and the outcome of the pass's latest add_business
NoAdd == [c |-> 0, ret |-> "none"]
IdlePass ==
    [pc |-> "idle", source |-> "none", results |-> <<>>, discovered |-> <<>>,
     exc |-> "none", last_add |-> NoAdd]

\* Mutant: the exception escapes run_<source>_discovery and the job's instance
\* never completes
MutRaisedNeverCompletes(p) ==
    p.pc \in {"exists", "url_exists", "add", "add_exists", "insert", "history", "raised"}

Running(p) == p.pc \in {"exists", "url_exists", "add", "add_exists", "insert", "history"}

\* The pass moves on to the next result, or leaves the loop
NextResult(p) ==
    LET rest == Tail(p.results)
    IN  IF rest # <<>>
        THEN [p EXCEPT !.results = rest,
                       !.pc = IF p.source = "google" THEN "exists" ELSE "add"]
        ELSE [p EXCEPT !.results = rest,
                       !.pc = IF p.source = "google" THEN "history" ELSE "done"]

\* discover_new_pages / discover_new_companies is entered with the results the
\* source hands it; LinkedInScraper.discover_new_companies returns [] at once
BeginPass(source, rs) ==
    IF source = "linkedin" \/ (source = "facebook" /\ rs = <<>>)
    THEN [IdlePass EXCEPT !.pc = "done", !.source = source]
    ELSE [IdlePass EXCEPT !.pc = IF source = "facebook" THEN "add"
                                 ELSE IF rs = <<>> THEN "history" ELSE "exists",
                          !.source = source, !.results = rs]

\* TaskScheduler.__init__: the enabled flags it reads from the configuration; the
\* BackgroundScheduler it builds has no job and does not run
TaskScheduler(facebook_enabled, linkedin_enabled, google_enabled) ==
    [facebook_enabled |-> facebook_enabled, linkedin_enabled |-> linkedin_enabled,
     google_enabled |-> google_enabled, jobs |-> {}, running |-> FALSE]

\* The id under which TaskScheduler.start adds the job of a runner
JobId(r) ==
    CASE r = "job_facebook" -> "facebook_discovery"
      [] r = "job_linkedin" -> "linkedin_discovery"
      [] r = "job_google" -> "google_discovery"

\* The id of the job that runs the dispatch polls
AlertJob(batch) == IF batch THEN "batch_alerts" ELSE "instant_alerts"

\* Mutant: the instant job is added whatever batch_mode is
MutInstantJobAlways(ts, batch) ==
    [ts EXCEPT !.jobs = @ \cup (IF ts.facebook_enabled THEN {"facebook_discovery"} ELSE {})
                          \cup (IF ts.linkedin_enabled THEN {"linkedin_discovery"} ELSE {})
                          \cup (IF ts.google_enabled THEN {"google_discovery"} ELSE {})
                          \cup (IF batch THEN {"batch_alerts"} ELSE {})
                          \cup {"instant_alerts"},
               !.running = TRUE]

\* TaskScheduler.start: add_job(..., replace_existing=True) for each enabled
\* source and for the alert job of the mode, then self.scheduler.start()
start(ts, batch) ==
    [ts EXCEPT !.jobs = @ \cup (IF ts.facebook_enabled THEN {"facebook_discovery"} ELSE {})
                          \cup (IF ts.linkedin_enabled THEN {"linkedin_discovery"} ELSE {})
                          \cup (IF ts.google_enabled THEN {"google_discovery"} ELSE {})
                          \cup (IF batch THEN {"batch_alerts"} ELSE {"instant_alerts"}),
               !.running = TRUE]

\* main.py: scheduler = TaskScheduler(); scheduler.start()
Start ==
    /\ ~task_scheduler.running
    /\ task_scheduler' = start(task_scheduler, batch_mode)
    /\ UNCHANGED <<businesses, search_history, clock, min_score, batch_mode, scorer, db_call,
                   credentials, manual, pass, poll, handed, delivered, started>>

\* Mutant: the search is made without the credentials
MutSearchWithoutKey(source, creds) == ResultLists(source)

\* The result lists the search of a source may return: search_google returns []
\* without api_key or search_engine_id, search_pages returns [] without
\* access_token
SearchResults(source, creds) ==
    IF source \in {"google", "facebook"} /\ ~creds[source]
    THEN {<<>>}
    ELSE ResultLists(source)

\* Every credential of settings.yaml is set
AllCredentials == [c \in {"google", "facebook", "alerts"} |-> TRUE]

\* The interval of a discovery job elapses: run_<source>_discovery starts unless
\* the job's previous instance is still running (the trigger is then skipped)
SchedulerFire(r) ==
    /\ r \in Jobs
    /\ task_scheduler.running
    /\ JobId(r) \in task_scheduler.jobs
    /\ ~Running(pass[r])
    /\ started.passes < MaxPasses
    /\ \E rs \in SearchResults(JobSource(r), credentials) :
            pass' = [pass EXCEPT ![r] = BeginPass(JobSource(r), rs)]
    /\ started' = [started EXCEPT !.passes = @ + 1]
    /\ UNCHANGED <<businesses, search_history, clock, min_score, batch_mode, scorer, db_call,
                   task_scheduler, credentials, manual, poll,
                   handed, delivered>>

\* POST /api/trigger/<source>: the handler builds a scraper and runs a pass
DashboardTrigger(source) ==
    /\ ~Running(pass["dashboard"])
    /\ started.passes < MaxPasses
    /\ \E rs \in SearchResults(source, credentials) :
            pass' = [pass EXCEPT !["dashboard"] = BeginPass(source, rs)]
    /\ started' = [started EXCEPT !.passes = @ + 1]
    /\ UNCHANGED <<businesses, search_history, clock, min_score, batch_mode, scorer, db_call,
                   task_scheduler, credentials, manual, poll,
                   handed, delivered>>

\* Mutant: the threshold test is dropped
MutNoThreshold(scored, setting) == TRUE

\* if scored['confidence_score'] >= min_score
MeetsThreshold(scored, setting) ==
    scored.confidence_score >= get_min_confidence_score(setting)

\* Mutant: the pass appends to `discovered` whatever add_business returned
MutAppendWhenFalse(db, p) ==
    IF business_exists(db, CandidatesOf(p.source)[Head(p.results)].page_url)
    THEN NextResult([p EXCEPT !.last_add = [c |-> Head(p.results), ret |-> "False"],
                              !.discovered = Append(@, Head(p.results))])
    ELSE [p EXCEPT !.pc = "insert"]

\* add_business, first statement: business_exists(page_url); a duplicate returns
\* False and the pass goes on to its next result
AddExists(db, p) ==
    IF business_exists(db, CandidatesOf(p.source)[Head(p.results)].page_url)
    THEN NextResult([p EXCEPT !.last_add = [c |-> Head(p.results), ret |-> "False"]])
    ELSE [p EXCEPT !.pc = "insert"]

\* GoogleScraper.discover_new_pages, one result: business_exists(url), then
\* extraction, scoring and the threshold
GoogleExists(r) ==
    /\ pass[r].pc = "exists"
    /\ LET p == pass[r]
           c == Head(p.results)
       IN  pass' = [pass EXCEPT ![r] =
                IF business_exists(businesses, GoogleCandidates[c].page_url)
                THEN NextResult(p)
                ELSE IF MeetsThreshold(Scored("google", c), min_score)
                     THEN [p EXCEPT !.pc = "add_exists"]
                     ELSE NextResult(p)]
    /\ UNCHANGED <<businesses, search_history, clock, min_score, batch_mode, scorer, db_call,
                   task_scheduler, credentials, manual, poll,
                   handed, delivered, started>>

\* LinkedInScraper.process_company_url is called for the URL of candidate c
ProcessCompanyUrl(c) ==
    /\ ~Running(pass["company_url"])
    /\ started.passes < MaxPasses
    /\ pass' = [pass EXCEPT !["company_url"] =
            [IdlePass EXCEPT !.pc = "url_exists", !.source = "company_url",
                             !.results = <<c>>]]
    /\ started' = [started EXCEPT !.passes = @ + 1]
    /\ UNCHANGED <<businesses, search_history, clock, min_score, batch_mode, scorer, db_call,
                   task_scheduler, credentials, manual, poll,
                   handed, delivered>>

\* process_company_url: business_exists(url), then get_company_details, the
\* business_name test, scoring and the threshold; each failed test returns None
CompanyUrlExists(r) ==
    /\ pass[r].pc = "url_exists"
    /\ LET p == pass[r]
           c == Head(p.results)
       IN  pass' = [pass EXCEPT ![r] =
                IF business_exists(businesses, LinkedInCandidates[c].page_url)
                THEN NextResult(p)
                ELSE IF ~Truthy(GetOrNone(LinkedInCandidates[c], "business_name"))
                     THEN NextResult(p)
                     ELSE IF MeetsThreshold(Scored("company_url", c), min_score)
                          THEN [p EXCEPT !.pc = "add_exists"]
                          ELSE NextResult(p)]
    /\ UNCHANGED <<businesses, search_history, clock, min_score, batch_mode, scorer, db_call,
                   task_scheduler, credentials, manual, poll,
                   handed, delivered, started>>

\* GoogleScraper.discover_new_pages and process_company_url: add_business up to
\* its business_exists
AddBusinessExists(r) ==
    /\ pass[r].pc = "add_exists"
    /\ pass' = [pass EXCEPT ![r] = AddExists(businesses, pass[r])]
    /\ UNCHANGED <<businesses, search_history, clock, min_score, batch_mode, scorer, db_call,
                   task_scheduler, credentials, manual, poll,
                   handed, delivered, started>>

\* FacebookScraper.discover_new_pages, one result: scoring, the threshold, and
\* add_business up to its business_exists (the first access to the store)
FacebookAdd(r) ==
    /\ pass[r].pc = "add"
    /\ LET p == pass[r]
       IN  pass' = [pass EXCEPT ![r] =
                IF MeetsThreshold(Scored("facebook", Head(p.results)), min_score)
                THEN AddExists(businesses, p)
                ELSE NextResult(p)]
    /\ UNCHANGED <<businesses, search_history, clock, min_score, batch_mode, scorer, db_call,
                   task_scheduler, credentials, manual, poll,
                   handed, delivered, started>>

\* Mutant: the INSERT never fails
MutInsertNeverFails(db, row) == "none"

\* The sqlite3.IntegrityError the INSERT raises for a row, "none" when it commits
IntegrityError(db, row) ==
    IF ConstraintsHold(db, row) THEN "none"
    ELSE IF None \in {row.business_name, row.platform, row.page_url}
         THEN "NOT NULL constraint failed"
         ELSE "UNIQUE constraint failed"

\* add_business, the INSERT and commit: True, and the pass appends the scored dict
\* to `discovered`; or sqlite3.IntegrityError, which neither add_business nor
\* discover_new_pages catches, so the pass ends with the exception
AddBusinessInsert(r) ==
    /\ pass[r].pc = "insert"
    /\ LET p == pass[r]
           c == Head(p.results)
           row == NewRow(businesses, Scored(p.source, c), clock)
           error == IntegrityError(businesses, row)
       IN  IF error = "none"
           THEN /\ businesses' = Append(businesses, row)
                /\ handed' = Append(handed, 0)
                /\ clock' = clock + 1
                /\ pass' = [pass EXCEPT ![r] =
                        NextResult([p EXCEPT !.discovered = Append(@, c),
                                             !.last_add = [c |-> c, ret |-> "True"]])]
           ELSE /\ pass' = [pass EXCEPT ![r] =
                        [p EXCEPT !.pc = "raised", !.exc = error,
                                  !.last_add = [c |-> c, ret |-> "raised"]]]
                /\ UNCHANGED <<businesses, handed, clock>>
    /\ UNCHANGED <<search_history, min_score, batch_mode, scorer, db_call,
                   task_scheduler, credentials, manual, poll, delivered, started>>

\* GoogleScraper.discover_new_pages: add_search_history after the query's results,
\* then return discovered
GoogleHistory(r) ==
    /\ pass[r].pc = "history"
    /\ search_history' = search_history + 1
    /\ pass' = [pass EXCEPT ![r] = [@ EXCEPT !.pc = "done"]]
    /\ UNCHANGED <<businesses, clock, min_score, batch_mode, scorer, db_call,
                   task_scheduler, credentials, manual, poll, handed, delivered,
                   started>>

-----------------------------------------------------------------------------
(* Dispatch polls (src/scheduler/task_scheduler.py): the alert job of the  *)
(* scheduler, process_batch_alerts when alerts.batch_mode is set and       *)
(* process_instant_alerts otherwise.                                       *)

\* businesses: the ids of the list get_unalereted_businesses returned, in its
\* order; i: the index of the loop; sent_ok: the outcome of each notifier attempt
IdlePoll == [pc |-> "idle", businesses |-> <<>>, i |-> 1, sent_ok |-> <<>>]

Polling == poll.pc \in {"send", "mark"}

Ids(rows) == [k \in 1..Len(rows) |-> rows[k].id]

\* The interval of the alert job elapses: the poll reads the pending records and
\* returns at once when there are none
PollStart ==
    /\ task_scheduler.running
    /\ AlertJob(batch_mode) \in task_scheduler.jobs
    /\ ~Polling
    /\ started.polls < MaxPolls
    /\ LET pending == Ids(get_unalereted_businesses(businesses))
       IN  poll' = [pc |-> IF pending = <<>> THEN "done" ELSE "send",
                    businesses |-> pending, i |-> 1, sent_ok |-> <<>>]
    /\ started' = [started EXCEPT !.polls = @ + 1]
    /\ UNCHANGED <<businesses, search_history, clock, min_score, batch_mode, scorer, db_call,
                   task_scheduler, credentials, manual, pass,
                   handed, delivered>>

\* Mutant: send_alert lets a delivery failure escape, and the except clause of
\* process_instant_alerts ends the poll
MutSendAlertRaises(ok) == IF ok THEN "mark" ELSE "done"

\* AlertManager.send_alert: it and the channel methods catch every exception, so
\* the call returns after a failed delivery (ok = FALSE) as after a successful
\* one, and process_instant_alerts goes on to mark_as_alerted
AfterSendAlert(ok) == "mark"

\* Mutant: send_batch_alert lets a delivery failure escape, and the except clause
\* of process_batch_alerts ends the poll
MutSendBatchAlertRaises(ok) == IF ok THEN "mark" ELSE "done"

\* AlertManager.send_batch_alert: likewise
AfterSendBatchAlert(ok) == "mark"

\* process_instant_alerts: alert_manager.send_alert(business); a channel without
\* its credentials logs a warning and returns, so nothing is delivered
InstantSend(ok) ==
    /\ ~batch_mode
    /\ poll.pc = "send"
    /\ ok => credentials.alerts
    /\ LET id == poll.businesses[poll.i]
       IN  /\ handed' = [handed EXCEPT ![id] = @ + 1]
           /\ delivered' = IF ok THEN delivered \cup {id} ELSE delivered
    /\ poll' = [poll EXCEPT !.pc = AfterSendAlert(ok), !.sent_ok = Append(@, ok)]
    /\ UNCHANGED <<businesses, search_history, clock, min_score, batch_mode, scorer, db_call,
                   task_scheduler, credentials, manual, pass,
                   started>>

\* process_batch_alerts: alert_manager.send_batch_alert(businesses)
BatchSend(ok) ==
    /\ batch_mode
    /\ poll.pc = "send"
    /\ ok => credentials.alerts
    /\ LET ids == {poll.businesses[k] : k \in 1..Len(poll.businesses)}
       IN  /\ handed' = [k \in 1..Len(handed) |->
                            IF k \in ids THEN handed[k] + 1 ELSE handed[k]]
           /\ delivered' = IF ok THEN delivered \cup ids ELSE delivered
    /\ poll' = [poll EXCEPT !.pc = AfterSendBatchAlert(ok),
                            !.sent_ok = [k \in 1..Len(poll.businesses) |-> ok]]
    /\ UNCHANGED <<businesses, search_history, clock, min_score, batch_mode, scorer, db_call,
                   task_scheduler, credentials, manual, pass,
                   started>>

\* self.db.mark_as_alerted(business['id']) for the record the loop is at; the
\* instant loop then sends the next record, the batch loop marks the next one
PollMark ==
    /\ poll.pc = "mark"
    /\ businesses' = mark_as_alerted(businesses, poll.businesses[poll.i])
    /\ poll' = [poll EXCEPT !.i = @ + 1,
                            !.pc = IF poll.i = Len(poll.businesses) THEN "done"
                                   ELSE IF batch_mode THEN "mark" ELSE "send"]
    /\ UNCHANGED <<search_history, clock, min_score, batch_mode, scorer, db_call,
                   task_scheduler, credentials, manual, pass, handed,
                   delivered, started>>

-----------------------------------------------------------------------------
(* Manual discovery (main.py): `python main.py discover` runs a pass of     *)
(* each enabled source in turn, in a process of its own on the same store,  *)
(* and sends an alert for every record a pass returned.                     *)

\* The sources in the order run_manual_discovery takes them
ManualOrder == <<"facebook", "linkedin", "google">>

\* pc: "idle" before the command is given, "if" at the is_enabled test of
\* source number `at`, "pass" while its pass runs, "alerts" in the loop over the
\* list the pass returned, at its entry number i; "done" and "raised" at the end
NotRun == [pc |-> "idle", at |-> 1, i |-> 1]

\* config.is_enabled(source), as TaskScheduler.__init__ read it
is_enabled(ts, source) ==
    CASE source = "facebook" -> ts.facebook_enabled
      [] source = "linkedin" -> ts.linkedin_enabled
      [] source = "google" -> ts.google_enabled

\* The id of the stored record of a URL
RowOf(db, page_url) ==
    CHOOSE i \in 1..Len(db) : db[i].hash = generate_hash(page_url)

\* python main.py discover
ManualDiscover ==
    /\ manual.pc = "idle"
    /\ manual' = [manual EXCEPT !.pc = "if"]
    /\ UNCHANGED <<businesses, search_history, clock, min_score, batch_mode, scorer, db_call,
                   task_scheduler, credentials, pass, poll, handed, delivered, started>>

\* if config.is_enabled(source): a scraper is built and its pass is entered;
\* after the Google block the function returns
ManualIf ==
    /\ manual.pc = "if"
    /\ IF manual.at > Len(ManualOrder)
       THEN /\ manual' = [manual EXCEPT !.pc = "done"]
            /\ UNCHANGED pass
       ELSE IF is_enabled(task_scheduler, ManualOrder[manual.at])
            THEN /\ \E rs \in SearchResults(ManualOrder[manual.at], credentials) :
                        pass' = [pass EXCEPT !["manual"] =
                                    BeginPass(ManualOrder[manual.at], rs)]
                 /\ manual' = [manual EXCEPT !.pc = "pass"]
            ELSE /\ manual' = [manual EXCEPT !.at = @ + 1]
                 /\ UNCHANGED pass
    /\ UNCHANGED <<businesses, search_history, clock, min_score, batch_mode, scorer, db_call,
                   task_scheduler, credentials, poll, handed, delivered, started>>

\* The pass returns its list, or its exception leaves run_manual_discovery,
\* which catches nothing
ManualPassEnds ==
    /\ manual.pc = "pass"
    /\ pass["manual"].pc \in {"done", "raised"}
    /\ manual' = [manual EXCEPT !.pc = IF pass["manual"].pc = "done" THEN "alerts"
                                       ELSE "raised",
                                !.i = 1]
    /\ UNCHANGED <<businesses, search_history, clock, min_score, batch_mode, scorer, db_call,
                   task_scheduler, credentials, pass, poll, handed, delivered, started>>

\* for business in results: alert_manager.send_alert(business); no call of
\* mark_as_alerted follows
ManualSendAlert(ok) ==
    /\ manual.pc = "alerts"
    /\ ok => credentials.alerts
    /\ LET urls == [k \in DOMAIN pass["manual"].discovered |->
                        CandidatesOf(pass["manual"].source)
                            [pass["manual"].discovered[k]].page_url]
       IN  IF manual.i > Len(urls)
           THEN /\ ~ok
                /\ manual' = [manual EXCEPT !.pc = "if", !.at = @ + 1, !.i = 1]
                /\ UNCHANGED <<handed, delivered>>
           ELSE LET id == RowOf(businesses, urls[manual.i])
                IN  /\ handed' = [handed EXCEPT ![id] = @ + 1]
                    /\ delivered' = IF ok THEN delivered \cup {id} ELSE delivered
                    /\ manual' = [manual EXCEPT !.i = @ + 1]
    /\ UNCHANGED <<businesses, search_history, clock, min_score, batch_mode, scorer, db_call,
                   task_scheduler, credentials, pass, poll, started>>

-----------------------------------------------------------------------------
(* The store on its own: a client holding a DatabaseHandler calls          *)
(* add_business and mark_as_alerted one after the other.                   *)

\* op: the method called; business_id: the argument of mark_as_alerted; before:
\* the table when the call was made; returned: "True", "False", "None" or
\* "raised"
NoCall == [op |-> "none", business_id |-> 0, before |-> <<>>, returned |-> "None"]

\* The scored dicts a client may hand to add_business
ScoredDicts ==
    {GoogleScored[c] : c \in DOMAIN GoogleCandidates}
    \cup {FacebookScored[c] : c \in DOMAIN FacebookCandidates}
    \cup {LinkedInScored[c] : c \in DOMAIN LinkedInCandidates}

\* db.add_business(scored)
AddBusiness(scored) ==
    /\ LET row == NewRow(businesses, scored, clock)
           error == IntegrityError(businesses, row)
           stored == business_exists(businesses, GetOrNone(scored.data, "page_url"))
       IN  /\ IF ~stored /\ error = "none"
              THEN /\ businesses' = Append(businesses, row)
                   /\ handed' = Append(handed, 0)
                   /\ clock' = clock + 1
              ELSE UNCHANGED <<businesses, handed, clock>>
           /\ db_call' =
                 [op |-> "add_business", business_id |-> 0, before |-> businesses,
                  returned |-> IF stored THEN "False"
                               ELSE IF error = "none" THEN "True" ELSE "raised"]
    /\ UNCHANGED <<search_history, min_score, batch_mode, task_scheduler, credentials, manual,
                   scorer, pass, poll,
                   delivered, started>>

\* db.mark_as_alerted(business_id): the UPDATE of no row is no error
MarkAsAlerted(business_id) ==
    /\ businesses' = mark_as_alerted(businesses, business_id)
    /\ db_call' = [op |-> "mark_as_alerted", business_id |-> business_id,
                   before |-> businesses, returned |-> "None"]
    /\ UNCHANGED <<search_history, clock, min_score, batch_mode, task_scheduler,
                   credentials, manual,
                   scorer, pass, poll,
                   handed, delivered, started>>

StoreNext ==
    \/ \E scored \in ScoredDicts : AddBusiness(scored)
    \/ \E business_id \in 1..(Len(businesses) + 1) : MarkAsAlerted(business_id)

-----------------------------------------------------------------------------
(* The lead scorer on its own: a LeadScorer built from some rule tables is  *)
(* called with candidate dicts, and a caller hands what it returns to the   *)
(* threshold test and add_business, as the passes do.                       *)

\* categories.get(category, {}).get('priority', 'medium')
category_priority(category, categories) ==
    CfgGet(CfgGet(categories, category, EmptyDict), "priority", "medium")

\* ' '.join(text_fields).lower()
combined_text(business_data) ==
    Lower(Join(<< Get(business_data, "business_name", <<>>),
                  Get(business_data, "description", <<>>),
                  Get(business_data, "location", <<>>),
                  Get(business_data, "category", <<>>) >>))

\* LeadScorer.__init__: the rule tables are read once.  calls: score_business
\* calls so far; returned: what the latest call returned (none yet: empty);
\* earlier: score, priority and category default priority of the calls before it
LeadScorer(location_signals, categories) ==
    [location_signals |-> location_signals, categories |-> categories,
     calls |-> 0, returned |-> <<>>, earlier |-> <<>>]

Outcome(scored, categories) ==
    [confidence_score |-> scored.confidence_score, priority |-> scored.priority,
     category_priority |->
        category_priority(GetOrNone(scored.data, "category"), categories)]

\* scorer.score_business(business_data)
ScoreBusiness(business_data) ==
    /\ scorer.calls < MaxScoreCalls
    /\ businesses = <<>>
    /\ scorer' =
          [scorer EXCEPT
              !.calls = @ + 1,
              !.returned = << ScoreTable[<<scorer.location_signals, scorer.categories>>]
                                        [business_data] >>,
              !.earlier = IF scorer.returned = <<>> THEN @
                          ELSE Append(@, Outcome(scorer.returned[1], scorer.categories))]
    /\ UNCHANGED <<businesses, search_history, clock, min_score, batch_mode, pass, poll,
                   handed, delivered, started, db_call, task_scheduler, credentials, manual>>

\* if scored['confidence_score'] >= min_score: self.db.add_business(scored), with
\* nothing else using the store: False for a stored identity, the INSERT otherwise
StoreScored ==
    /\ scorer.returned # <<>>
    /\ MeetsThreshold(scorer.returned[1], min_score)
    /\ LET scored == scorer.returned[1]
           row == NewRow(businesses, scored, clock)
       IN  IF /\ ~business_exists(businesses, GetOrNone(scored.data, "page_url"))
              /\ IntegrityError(businesses, row) = "none"
           THEN /\ businesses' = Append(businesses, row)
                /\ handed' = Append(handed, 0)
                /\ clock' = clock + 1
           ELSE UNCHANGED <<businesses, handed, clock>>
    /\ UNCHANGED <<search_history, min_score, batch_mode, scorer, db_call,
                   task_scheduler, credentials, manual, pass, poll, delivered,
                   started>>

ScorerInit ==
    /\ businesses = <<>>
    /\ search_history = 0
    /\ clock = 1
    /\ min_score \in MinScoreSettings
    /\ batch_mode = FALSE
    /\ pass = [r \in Runners |-> IdlePass]
    /\ poll = IdlePoll
    /\ handed = <<>>
    /\ delivered = {}
    /\ started = [passes |-> 0, polls |-> 0]
    /\ \E tables \in RuleTables : scorer = LeadScorer(tables[1], tables[2])
    /\ db_call = NoCall
    /\ task_scheduler = TaskScheduler(FALSE, FALSE, FALSE)
    /\ credentials = AllCredentials
    /\ manual = NotRun

ScorerNext ==
    \/ \E business_data \in BusinessData : ScoreBusiness(business_data)
    \/ StoreScored

ScorerSpec == ScorerInit /\ [][ScorerNext]_vars

-----------------------------------------------------------------------------

Init ==
    /\ businesses = <<>>
    /\ search_history = 0
    /\ clock = 1
    /\ min_score \in MinScoreSettings
    /\ batch_mode \in BOOLEAN
    /\ pass = [r \in Runners |-> IdlePass]
    /\ poll = IdlePoll
    /\ handed = <<>>
    /\ delivered = {}
    /\ started = [passes |-> 0, polls |-> 0]
    /\ scorer = LeadScorer(LocationSignals, Categories)
    /\ db_call = NoCall
    /\ task_scheduler = start(TaskScheduler(TRUE, TRUE, TRUE), batch_mode)
    /\ credentials = AllCredentials
    /\ manual = NotRun

Next ==
    \/ \E r \in Runners : SchedulerFire(r)
    \/ \E source \in Sources : DashboardTrigger(source)
    \/ \E c \in DOMAIN LinkedInCandidates : ProcessCompanyUrl(c)
    \/ \E r \in Runners : CompanyUrlExists(r)
    \/ \E r \in Runners : GoogleExists(r)
    \/ \E r \in Runners : AddBusinessExists(r)
    \/ \E r \in Runners : FacebookAdd(r)
    \/ \E r \in Runners : AddBusinessInsert(r)
    \/ \E r \in Runners : GoogleHistory(r)
    \/ PollStart
    \/ \E ok \in BOOLEAN : InstantSend(ok)
    \/ \E ok \in BOOLEAN : BatchSend(ok)
    \/ PollMark

Spec == Init /\ [][Next]_vars

\* The store on its own starts as the pipeline does: an empty table
StoreSpec == Init /\ [][StoreNext]_vars

-----------------------------------------------------------------------------
(* Manual discovery on the store of the running system: the alert job of    *)
(* the scheduler polls the store the manual run writes to.                  *)

ManualNext ==
    \/ ManualDiscover
    \/ ManualIf
    \/ ManualPassEnds
    \/ \E ok \in BOOLEAN : ManualSendAlert(ok)
    \/ \E r \in Runners : GoogleExists(r)
    \/ \E r \in Runners : AddBusinessExists(r)
    \/ \E r \in Runners : FacebookAdd(r)
    \/ \E r \in Runners : AddBusinessInsert(r)
    \/ \E r \in Runners : GoogleHistory(r)
    \/ PollStart
    \/ \E ok \in BOOLEAN : InstantSend(ok)
    \/ \E ok \in BOOLEAN : BatchSend(ok)
    \/ PollMark

ManualSpec == Init /\ [][ManualNext]_vars

-----------------------------------------------------------------------------
(* The scheduler left running: the interval of the alert job elapses again  *)
(* and again, whatever the number of polls before; the passes of the        *)
(* discovery jobs insert records meanwhile.                                 *)

\* As PollStart, with no limit on the number of polls (started.polls stops
\* counting at MaxPolls)
PollFire ==
    /\ task_scheduler.running
    /\ AlertJob(batch_mode) \in task_scheduler.jobs
    /\ ~Polling
    /\ LET pending == Ids(get_unalereted_businesses(businesses))
       IN  poll' = [pc |-> IF pending = <<>> THEN "done" ELSE "send",
                    businesses |-> pending, i |-> 1, sent_ok |-> <<>>]
    /\ started' = [started EXCEPT !.polls = Min(@ + 1, MaxPolls)]
    /\ UNCHANGED <<businesses, search_history, clock, min_score, batch_mode, scorer, db_call,
                   task_scheduler, credentials, manual, pass, handed, delivered>>

LiveInit ==
    /\ Init
    /\ min_score = 50

LiveNext ==
    \/ \E r \in Runners : SchedulerFire(r)
    \/ \E r \in Runners : GoogleExists(r)
    \/ \E r \in Runners : AddBusinessExists(r)
    \/ \E r \in Runners : FacebookAdd(r)
    \/ \E r \in Runners : AddBusinessInsert(r)
    \/ \E r \in Runners : GoogleHistory(r)
    \/ PollFire
    \/ \E ok \in BOOLEAN : InstantSend(ok)
    \/ \E ok \in BOOLEAN : BatchSend(ok)
    \/ PollMark

\* The BackgroundScheduler keeps firing the alert job, and the thread that runs
\* a poll runs it to its end
LiveSpec ==
    /\ LiveInit
    /\ [][LiveNext]_vars
    /\ WF_vars(PollFire)
    /\ WF_vars(\E ok \in BOOLEAN : InstantSend(ok))
    /\ WF_vars(\E ok \in BOOLEAN : BatchSend(ok))
    /\ WF_vars(PollMark)

-----------------------------------------------------------------------------
(* The scheduler from its construction: any source may be disabled, any    *)
(* credentials may be missing; only its jobs run passes and polls.         *)

SchedulerInit ==
    /\ businesses = <<>>
    /\ search_history = 0
    /\ clock = 1
    /\ min_score = 50
    /\ batch_mode \in BOOLEAN
    /\ pass = [r \in Runners |-> IdlePass]
    /\ poll = IdlePoll
    /\ handed = <<>>
    /\ delivered = {}
    /\ started = [passes |-> 0, polls |-> 0]
    /\ scorer = LeadScorer(LocationSignals, Categories)
    /\ db_call = NoCall
    /\ \E f, l, g \in BOOLEAN : task_scheduler = TaskScheduler(f, l, g)
    /\ credentials \in [{"google", "facebook", "alerts"} -> BOOLEAN]
    /\ manual = NotRun

SchedulerNext ==
    \/ Start
    \/ \E r \in Runners : SchedulerFire(r)
    \/ \E r \in Runners : GoogleExists(r)
    \/ \E r \in Runners : AddBusinessExists(r)
    \/ \E r \in Runners : FacebookAdd(r)
    \/ \E r \in Runners : AddBusinessInsert(r)
    \/ \E r \in Runners : GoogleHistory(r)
    \/ PollStart
    \/ \E ok \in BOOLEAN : InstantSend(ok)
    \/ \E ok \in BOOLEAN : BatchSend(ok)
    \/ PollMark

SchedulerSpec == SchedulerInit /\ [][SchedulerNext]_vars

-----------------------------------------------------------------------------
(* Properties                                                              *)

Rows == 1..Len(businesses)

\* The candidate a pass has in hand, and its URL
InHand(p) == CandidatesOf(p.source)[Head(p.results)]

\* Runner r is about to execute the first statement of add_business
EnteringAddBusiness(r) ==
    \/ pass[r].pc = "add_exists"
    \/ /\ pass[r].pc = "add"
       /\ MeetsThreshold(Scored("facebook", Head(pass[r].results)), min_score)

StoredIgnoringCase(url) ==
    \E i \in Rows : Lower(businesses[i].page_url) = Lower(url)

\* C1: once a record with page_url u is stored, an add_business entered later
\* with a page_url equal to u ignoring case returns False and leaves the table
\* as it is; the table never holds two records whose page_urls are equal
\* ignoring case.
C1_InsertIdempotentIgnoringCase ==
    /\ [](\A i, j \in Rows :
            Lower(businesses[i].page_url) = Lower(businesses[j].page_url) => i = j)
    /\ [][\A r \in Runners :
            (/\ EnteringAddBusiness(r)
             /\ StoredIgnoringCase(InHand(pass[r]).page_url)
             /\ pass'[r] # pass[r])
            => /\ businesses' = businesses
               /\ pass'[r].last_add = [c |-> Head(pass[r].results), ret |-> "False"]
               /\ pass'[r].discovered = pass[r].discovered]_vars

\* A pass's add_business returned False for a URL stored in another letter case
C1_Witness ==
    \E r \in Runners :
        /\ pass[r].last_add.ret = "False"
        /\ \E i \in Rows :
              LET url == CandidatesOf(pass[r].source)[pass[r].last_add.c].page_url
              IN  /\ businesses[i].page_url # url
                  /\ Lower(businesses[i].page_url) = Lower(url)

\* C2: in every reachable state, races between concurrent passes included, the
\* table holds at most one record per identity hash.
C2_OneRecordPerHash ==
    \A i, j \in Rows : businesses[i].hash = businesses[j].hash => i = j

\* Two passes both found an identity absent; one inserted it, and the INSERT of
\* the other met the record
C2_Witness ==
    \E r1, r2 \in Runners :
        /\ r1 # r2
        /\ pass[r1].exc = "UNIQUE constraint failed"
        /\ \E k \in DOMAIN pass[r2].discovered :
              generate_hash(CandidatesOf(pass[r2].source)[pass[r2].discovered[k]].page_url)
                = generate_hash(InHand(pass[r1]).page_url)

\* C3 (as claimed): the insert that loses a race returns False, raises nothing,
\* and the losing pass goes on with its remaining candidates.
C3_LosingInsertReturnsFalse ==
    \A r \in Runners :
        /\ pass[r].exc # "UNIQUE constraint failed"
        /\ pass[r].last_add.ret = "raised" => pass[r].exc = "NOT NULL constraint failed"

\* C4: every stored record has a confidence_score of at least the configured
\* min_confidence_score (60 when none is configured), whichever pass stored it.
C4_StoredMeetThreshold ==
    \A i \in Rows :
        businesses[i].confidence_score >= get_min_confidence_score(min_score)

\* With no threshold configured, a record scoring exactly 60 is stored and a pass
\* has finished with nothing stored below it
C4_Witness ==
    /\ min_score = NotConfigured
    /\ \E i \in Rows : businesses[i].confidence_score = DefaultMinConfidenceScore
    /\ \E r \in Runners : pass[r].pc = "done" /\ pass[r].source = "google"

\* C5: once a record's alerted flag is true it is true in every later state.
C5_AlertedMonotonic ==
    [][\A i \in Rows :
        businesses[i].alerted
        => (i <= Len(businesses') /\ businesses'[i].alerted)]_vars

\* A record notified by an earlier poll is still notified after a later poll
C5_Witness ==
    /\ started.polls = 2
    /\ poll.pc = "done"
    /\ \E i \in Rows :
          /\ businesses[i].alerted
          /\ \A k \in DOMAIN poll.businesses : poll.businesses[k] # i

\* C6 (as claimed): in instant mode a record is notified only after a successful
\* notifier attempt for it; a record whose attempt failed in a poll is still
\* unnotified after the poll.
C6_InstantMarksOnlyDelivered ==
    ~batch_mode =>
        /\ \A i \in Rows : businesses[i].alerted => i \in delivered
        /\ poll.pc = "done" =>
              \A k \in DOMAIN poll.sent_ok :
                  ~poll.sent_ok[k] => ~businesses[poll.businesses[k]].alerted

\* C7: in an instant poll every record of the pending set the loop has passed
\* was handed to the notifier and is notified, whatever the outcomes of the
\* attempts before it, and the poll ends only after the whole pending set.
C7_InstantFailureDoesNotBlock ==
    ~batch_mode =>
        /\ \A k \in DOMAIN poll.businesses :
              k < poll.i =>
                /\ businesses[poll.businesses[k]].alerted
                /\ handed[poll.businesses[k]] >= 1
                /\ k <= Len(poll.sent_ok)
        /\ poll.pc = "done" => poll.i = Len(poll.businesses) + 1

\* An instant poll of two records: the notifier failed for the first, succeeded
\* for the second, and both are notified
C7_Witness ==
    /\ ~batch_mode
    /\ poll.pc = "done"
    /\ poll.sent_ok = <<FALSE, TRUE>>
    /\ \A k \in DOMAIN poll.businesses : businesses[poll.businesses[k]].alerted

\* C8: after a batch poll every record of the pending set handed to the notifier
\* is notified, whether the batch call succeeded or failed.
C8_BatchMarksAll ==
    (batch_mode /\ poll.pc = "done") =>
        \A k \in DOMAIN poll.businesses :
            /\ businesses[poll.businesses[k]].alerted
            /\ handed[poll.businesses[k]] >= 1

\* A batch poll of two records whose notifier call failed: both are notified
C8_Witness ==
    /\ batch_mode
    /\ poll.pc = "done"
    /\ poll.sent_ok = <<FALSE, FALSE>>
    /\ \A k \in DOMAIN poll.businesses : businesses[poll.businesses[k]].alerted

\* C9 (as claimed): no two passes of the same source are in flight at once.
C9_NoSelfOverlap ==
    \A r1, r2 \in Runners :
        (r1 # r2 /\ Running(pass[r1]) /\ Running(pass[r2]))
        => pass[r1].source # pass[r2].source

\* C10 (as claimed): an error on one candidate is caught inside the pass, which
\* goes on with its later candidates and returns what it inserted: no pass ends
\* with an exception, results left over or its discovered list lost.
C10_ErrorSkipsOnlyCandidate ==
    \A r \in Runners :
        ~Running(pass[r]) => (pass[r].pc # "raised" /\ pass[r].results = <<>>)

-----------------------------------------------------------------------------
(* Properties of the scorer, checked under ScorerSpec                      *)

\* What the latest score_business call returned, and the dict it was called with
HasReturned == scorer.returned # <<>>
Returned == scorer.returned[1]

\* A field of a candidate is present and non-empty
NonEmpty(business_data, key) ==
    key \notin business_data.missing /\ business_data[key] # <<>>

LocationScore(business_data) ==
    _score_location(combined_text(business_data), scorer.location_signals).score
CategoryScore(business_data) ==
    _score_category(combined_text(business_data), GetOrNone(business_data, "category"),
                    scorer.categories).score

\* C12: for every candidate and every rule table the confidence_score that
\* score_business returns, and that add_business stores, lies in 0..100.
C12_ScoreBounds ==
    /\ HasReturned =>
          (0 <= Returned.confidence_score /\ Returned.confidence_score <= 100)
    /\ \A i \in Rows :
          0 <= businesses[i].confidence_score /\ businesses[i].confidence_score <= 100

\* A candidate with every signal scored 100 after a candidate with none scored 0
C12_Witness ==
    /\ HasReturned
    /\ Returned.confidence_score = 100
    /\ \E k \in DOMAIN scorer.earlier : scorer.earlier[k].confidence_score = 0

\* C14: the confidence_score is min(location + category + contact + freshness +
\* quality, 100) with contact 10 for a non-empty phone plus 10 for a non-empty
\* email, freshness 15 for a non-empty page_created_date, and quality 5 for a
\* description longer than 50 characters plus 5 for a non-empty business_name.
C14_ScoreIsCappedSum ==
    HasReturned =>
        LET d == Returned.data
            contact == (IF NonEmpty(d, "phone") THEN 10 ELSE 0)
                       + (IF NonEmpty(d, "email") THEN 10 ELSE 0)
            freshness == IF NonEmpty(d, "page_created_date") THEN 15 ELSE 0
            quality == (IF "description" \notin d.missing /\ Len(d.description) > 50
                        THEN 5 ELSE 0)
                       + (IF NonEmpty(d, "business_name") THEN 5 ELSE 0)
        IN  Returned.confidence_score =
                Min(LocationScore(d) + CategoryScore(d) + contact + freshness + quality,
                    100)

\* A candidate whose description has exactly 50 characters, with a phone, no
\* email and a creation date: 10 + 15 + 5 for its name, and nothing for the
\* description
C14_Witness ==
    /\ HasReturned
    /\ Len(Returned.data.description) = 50
    /\ NonEmpty(Returned.data, "phone")
    /\ ~NonEmpty(Returned.data, "email")
    /\ NonEmpty(Returned.data, "page_created_date")
    /\ NonEmpty(Returned.data, "business_name")
    /\ Returned.confidence_score = 30

\* The priority rule as the claim orders it, first match first
FirstMatchingRule(confidence_score, default_priority) ==
    IF confidence_score >= 80 THEN "high"
    ELSE IF default_priority = "high" THEN "high"
    ELSE IF confidence_score >= 60 THEN "medium"
    ELSE "low"

\* C15: the priority score_business returns is that of the first matching rule
\* among: score >= 80, high; category with default priority high, high;
\* score >= 60, medium; otherwise low.  The priority stored with a record is the
\* rule's result for the record's stored confidence_score.
C15_PriorityByFirstMatchingRule ==
    /\ HasReturned =>
          Returned.priority =
              FirstMatchingRule(Returned.confidence_score,
                                Outcome(Returned, scorer.categories).category_priority)
    /\ \A i \in Rows :
          businesses[i].priority =
              FirstMatchingRule(businesses[i].confidence_score,
                                category_priority(businesses[i].category,
                                                  scorer.categories))

\* A record of a category of default priority medium is stored with score 80 and
\* priority high, after a candidate that scored below 60 was given low
C15_Witness ==
    /\ \E i \in Rows :
          /\ businesses[i].confidence_score = 80
          /\ businesses[i].priority = "high"
          /\ category_priority(businesses[i].category, scorer.categories) = "medium"
    /\ \E k \in DOMAIN scorer.earlier : scorer.earlier[k].priority = "low"

Tier(priority) ==
    CASE priority = "low" -> 1 [] priority = "medium" -> 2 [] priority = "high" -> 3

\* C16: of two candidates scored by one LeadScorer whose categories have the
\* same default priority, the one with the higher confidence_score never gets a
\* strictly lower priority tier.
C16_PriorityMonotoneInScore ==
    HasReturned =>
        \A k \in DOMAIN scorer.earlier :
            LET a == scorer.earlier[k]
                b == Outcome(Returned, scorer.categories)
            IN  a.category_priority = b.category_priority =>
                    /\ a.confidence_score > b.confidence_score
                          => Tier(a.priority) >= Tier(b.priority)
                    /\ b.confidence_score > a.confidence_score
                          => Tier(b.priority) >= Tier(a.priority)

\* Two candidates of categories of default priority medium: the earlier scored
\* 55 and got low, the later scored 60 and got medium
C16_Witness ==
    /\ HasReturned
    /\ Outcome(Returned, scorer.categories) =
          [confidence_score |-> 60, priority |-> "medium", category_priority |-> "medium"]
    /\ \E k \in DOMAIN scorer.earlier :
          scorer.earlier[k] =
              [confidence_score |-> 55, priority |-> "low", category_priority |-> "medium"]

\* Candidate 1 of the scenarios: the text mentions a configured country and a
\* configured major city, no phone pattern is configured, one category keyword
\* matches, a phone and no email, a name and a description of over 50 characters
Scenario1(d) ==
    LET text == combined_text(d)
        keywords ==
            CfgGet(CfgGet(scorer.categories, GetOrNone(d, "category"), EmptyDict),
                   "keywords", <<>>)
    IN  /\ LowerMatches(CfgGet(scorer.location_signals, "country", <<>>), text) # <<>>
        /\ LowerMatches(CfgGet(scorer.location_signals, "major_cities", <<>>), text) # <<>>
        /\ CfgGet(scorer.location_signals, "phone_patterns", <<>>) = <<>>
        /\ Len(LowerMatches(keywords, text)) = 1
        /\ NonEmpty(d, "phone")
        /\ ~NonEmpty(d, "email")
        /\ NonEmpty(d, "business_name")
        /\ NonEmpty(d, "location")
        /\ Len(d.description) > 50

\* C17 (as claimed): for candidate 1 of the scenarios the location sub-score is
\* 30 and the confidence_score is at least 55 without page_created_date and at
\* least 70 with it.
C17_Scenario1AsClaimed ==
    (HasReturned /\ Scenario1(Returned.data)) =>
        /\ LocationScore(Returned.data) = 30
        /\ Returned.confidence_score >=
              (IF NonEmpty(Returned.data, "page_created_date") THEN 70 ELSE 55)

\* C17 (amended): for candidate 1 of the scenarios the location sub-score is 25
\* (10 for the country and 15 for the city) and the confidence_score is at
\* least 50 without page_created_date and at least 65 with it.
C17_Scenario1 ==
    (HasReturned /\ Scenario1(Returned.data)) =>
        /\ LocationScore(Returned.data) = 25
        /\ Returned.confidence_score >=
              (IF NonEmpty(Returned.data, "page_created_date") THEN 65 ELSE 50)

\* Candidate 1 was scored 50 without a creation date, then 65 with one
C17_Witness ==
    /\ HasReturned
    /\ Scenario1(Returned.data)
    /\ NonEmpty(Returned.data, "page_created_date")
    /\ Returned.confidence_score = 65
    /\ \E k \in DOMAIN scorer.earlier : scorer.earlier[k].confidence_score = 50

-----------------------------------------------------------------------------
(* Properties of the store's operations                                    *)

\* C18: the list a poll gets from get_unalereted_businesses holds every stored
\* record with alerted = false and no other, each once, ordered by
\* confidence_score descending and, among equal scores, by discovered_date
\* descending.
C18_PendingExactAndOrdered ==
    [][started'.polls # started.polls =>
        LET ids == poll'.businesses
        IN  /\ {ids[k] : k \in DOMAIN ids} = {i \in Rows : ~businesses[i].alerted}
            /\ \A j, k \in DOMAIN ids :
                  j < k =>
                    /\ ids[j] # ids[k]
                    /\ \/ businesses[ids[j]].confidence_score
                            > businesses[ids[k]].confidence_score
                       \/ /\ businesses[ids[j]].confidence_score
                               = businesses[ids[k]].confidence_score
                          /\ businesses[ids[j]].discovered_date
                               >= businesses[ids[k]].discovered_date]_vars

\* A poll has just read two pending records of equal score: the one discovered
\* later comes first
C18_Witness ==
    /\ poll.pc = "send"
    /\ poll.i = 1
    /\ poll.sent_ok = <<>>
    /\ poll.businesses = <<2, 1>>
    /\ businesses[1].confidence_score = businesses[2].confidence_score

\* C19: mark_as_alerted on a record that is already notified raises nothing
\* and leaves the whole table as it was.
C19_MarkIdempotent ==
    (/\ db_call.op = "mark_as_alerted"
     /\ \E i \in DOMAIN db_call.before :
           /\ db_call.before[i].id = db_call.business_id
           /\ db_call.before[i].alerted)
    => /\ db_call.returned = "None"
       /\ businesses = db_call.before

\* The second of two records was marked when it was already notified, the
\* first being still pending
C19_Witness ==
    /\ db_call.op = "mark_as_alerted"
    /\ db_call.business_id = 2
    /\ Len(db_call.before) = 2
    /\ db_call.before[2].alerted
    /\ ~db_call.before[1].alerted

\* C20: an add_business that returns True adds exactly one record, with
\* discovered_date = last_updated and alerted = false, and leaves the others as
\* they were; an add_business that fails changes no field of any stored record.
C20_AddBusinessFrame ==
    [][\A r \in Runners :
        /\ (pass[r].pc = "insert" /\ pass'[r] # pass[r]
                /\ pass'[r].last_add.ret = "True")
           => /\ Len(businesses') = Len(businesses) + 1
              /\ SubSeq(businesses', 1, Len(businesses)) = businesses
              /\ LET row == businesses'[Len(businesses')]
                 IN  /\ row.discovered_date = row.last_updated
                     /\ row.discovered_date = clock
                     /\ ~row.alerted
                     /\ row.page_url = InHand(pass[r]).page_url
        /\ ((EnteringAddBusiness(r) \/ pass[r].pc = "insert") /\ pass'[r] # pass[r]
                /\ pass'[r].last_add.ret \in {"False", "raised"})
           => businesses' = businesses]_vars

\* An add_business returned False for a candidate whose score differs from the
\* score stored with its identity, and the stored record is as it was inserted
C20_Witness ==
    \E r \in Runners :
        /\ pass[r].last_add.ret = "False"
        /\ \E i \in Rows :
              /\ businesses[i].hash =
                    generate_hash(CandidatesOf(pass[r].source)[pass[r].last_add.c].page_url)
              /\ businesses[i].confidence_score
                    # Scored(pass[r].source, pass[r].last_add.c).confidence_score
              /\ businesses[i].discovered_date = businesses[i].last_updated

\* The URLs the sources hand to the passes
CandidateUrls == {U1, U1Upper, U2}

\* C21: in every reachable state business_exists(u) is true exactly when some
\* stored record has the hash generate_hash(u), which is exactly when a URL equal
\* to u ignoring case was inserted; every stored record's hash is generate_hash of
\* its own page_url.
C21_ExistsIffStoredIgnoringCase ==
    /\ \A i \in Rows : businesses[i].hash = generate_hash(businesses[i].page_url)
    /\ \A u \in CandidateUrls :
          /\ business_exists(businesses, u)
                <=> (\E i \in Rows : businesses[i].hash = generate_hash(u))
          /\ business_exists(businesses, u) <=> StoredIgnoringCase(u)

\* Only U/A was inserted: business_exists is true of u/a, which no record has as
\* its page_url, and false of u/b
C21_Witness ==
    /\ Len(businesses) = 1
    /\ businesses[1].page_url = U1Upper
    /\ business_exists(businesses, U1)
    /\ ~business_exists(businesses, U2)

\* C22: no step changes the hash, the page_url or the discovered_date of a
\* stored record, or removes a record; a mark_as_alerted(id) of a poll changes
\* nothing but the alerted flag of the record with that id.
C22_IdentityFrozenAndMarkFrame ==
    [][/\ \A i \in Rows :
            /\ i <= Len(businesses')
            /\ businesses'[i].hash = businesses[i].hash
            /\ businesses'[i].page_url = businesses[i].page_url
            /\ businesses'[i].discovered_date = businesses[i].discovered_date
       /\ (poll.pc = "mark" /\ poll' # poll) =>
            /\ Len(businesses') = Len(businesses)
            /\ \A i \in Rows :
                  IF businesses[i].id = poll.businesses[poll.i]
                  THEN businesses'[i] = [businesses[i] EXCEPT !.alerted = TRUE]
                  ELSE businesses'[i] = businesses[i]]_vars

\* An instant poll over two pending records has marked the first: the second is
\* still pending
C22_Witness ==
    /\ ~batch_mode
    /\ Len(poll.businesses) = 2
    /\ poll.i = 2
    /\ poll.pc = "send"
    /\ businesses[poll.businesses[1]].alerted
    /\ ~businesses[poll.businesses[2]].alerted

\* C23 (as claimed): when mark_as_alerted flips a record's alerted flag, the
\* record's last_updated becomes the time of the flip, which is later than the
\* time of its insert.
C23_MarkSetsLastUpdated ==
    [][\A i \in Rows :
        (~businesses[i].alerted /\ businesses'[i].alerted)
        => /\ businesses'[i].last_updated = clock
           /\ businesses'[i].last_updated > businesses[i].discovered_date]_vars

-----------------------------------------------------------------------------
(* Properties of the discovery passes                                      *)

DiscoveredUrls(p) ==
    [k \in DOMAIN p.discovered |-> CandidatesOf(p.source)[p.discovered[k]].page_url]

\* C25: a pass appends a candidate to the list it returns exactly when its
\* add_business returned True for it, so the list holds those candidates in
\* processing order, each identity once and each stored; no step of a pass hands
\* a record to the notifier or changes an alerted flag.
C25_ReturnedListIsInserted ==
    /\ [](\A r \in Runners :
            LET urls == DiscoveredUrls(pass[r])
            IN  /\ \A j, k \in DOMAIN urls :
                      generate_hash(urls[j]) = generate_hash(urls[k]) => j = k
                /\ \A k \in DOMAIN urls :
                      \E i \in Rows : businesses[i].page_url = urls[k])
    /\ [][\A r \in Runners :
            (Running(pass[r]) /\ pass'[r] # pass[r]) =>
                /\ pass'[r].discovered =
                      IF pass[r].pc = "insert" /\ pass'[r].last_add.ret = "True"
                      THEN Append(pass[r].discovered, Head(pass[r].results))
                      ELSE pass[r].discovered
                /\ delivered' = delivered
                /\ \A i \in Rows :
                      /\ businesses'[i].alerted = businesses[i].alerted
                      /\ handed'[i] = handed[i]]_vars

\* A Facebook pass over two results has returned: its add_business returned
\* True for the first and False for the second, and the list holds the first
C25_Witness ==
    \E r \in Runners :
        /\ pass[r].pc = "done"
        /\ pass[r].source = "facebook"
        /\ Len(pass[r].discovered) = 1
        /\ pass[r].last_add.ret = "False"

-----------------------------------------------------------------------------
(* Properties of the sub-scores and signals, checked under ScorerSpec      *)

\* Some alias of the list occurs in the text, compared in lower case or as given
SomeOccursLower(aliases, text) ==
    \E k \in DOMAIN aliases : Contains(text, Lower(aliases[k]))
SomeOccurs(patterns, text) ==
    \E k \in DOMAIN patterns : Contains(text, patterns[k])

CountryOccurs(d) ==
    SomeOccursLower(CfgGet(scorer.location_signals, "country", <<>>), combined_text(d))
CityOccurs(d) ==
    SomeOccursLower(CfgGet(scorer.location_signals, "major_cities", <<>>),
                    combined_text(d))
PhonePatternOccurs(d) ==
    SomeOccurs(CfgGet(scorer.location_signals, "phone_patterns", <<>>), combined_text(d))

\* C26: the location sub-score is 10 if some configured country occurs in the
\* lower-cased combined text, plus 15 if some configured major city occurs in it,
\* plus 5 if some configured phone pattern occurs in it, each awarded once
\* however many aliases match, and it is at most 30.
C26_LocationSubScore ==
    HasReturned =>
        LET d == Returned.data
        IN  /\ LocationScore(d) = (IF CountryOccurs(d) THEN 10 ELSE 0)
                                  + (IF CityOccurs(d) THEN 15 ELSE 0)
                                  + (IF PhonePatternOccurs(d) THEN 5 ELSE 0)
            /\ LocationScore(d) <= 30

\* Two aliases of the country, two of the city and two phone patterns all occur
\* in a candidate's text, and its location sub-score is 30
C26_Witness ==
    /\ HasReturned
    /\ LET text == combined_text(Returned.data)
           ls == scorer.location_signals
       IN  /\ Len(LowerMatches(CfgGet(ls, "country", <<>>), text)) = 2
           /\ Len(LowerMatches(CfgGet(ls, "major_cities", <<>>), text)) = 2
           /\ Len(ExactMatches(CfgGet(ls, "phone_patterns", <<>>), text)) = 2
    /\ LocationScore(Returned.data) = 30

ConfiguredKeywords(d) ==
    CfgGet(CfgGet(scorer.categories, GetOrNone(d, "category"), EmptyDict),
           "keywords", <<>>)

\* C27 (as claimed): the category sub-score is 0, with no category signal, when
\* the category is empty or has no configured keywords; otherwise it is
\* min(5 * m, 25) with m the number of distinct configured keywords of the
\* category that occur in the combined text, ignoring case.
C27_CategorySubScore ==
    HasReturned =>
        LET d == Returned.data
            text == combined_text(d)
            keywords == ConfiguredKeywords(d)
            distinct == {keywords[k] : k \in DOMAIN keywords}
            m == Cardinality({kw \in distinct : Contains(text, Lower(kw))})
            cat == _score_category(text, GetOrNone(d, "category"), scorer.categories)
        IN  IF ~NonEmpty(d, "category") \/ keywords = <<>>
            THEN cat.score = 0 /\ cat.signals = <<>>
            ELSE cat.score = Min(5 * m, 25)

\* The kinds of the entries of a signal list, in order
Kinds(signals) == [k \in DOMAIN signals |-> signals[k][1]]

\* C28: scoring_signals has one entry per sub-rule that contributed points, in
\* the order country, cities, phone pattern, category keywords, phone, email,
\* freshness, content quality, and no other entry.
C28_SignalsInOrder ==
    HasReturned =>
        LET d == Returned.data
            quality == (Len(Get(d, "description", <<>>)) > 50)
                       \/ NonEmpty(d, "business_name")
        IN  Kinds(Returned.scoring_signals) =
                (IF CountryOccurs(d) THEN <<"Country">> ELSE <<>>)
                \o (IF CityOccurs(d) THEN <<"Cities">> ELSE <<>>)
                \o (IF PhonePatternOccurs(d) THEN <<"Phone pattern">> ELSE <<>>)
                \o (IF CategoryScore(d) > 0 THEN <<"Category keywords">> ELSE <<>>)
                \o (IF NonEmpty(d, "phone") THEN <<"Has phone">> ELSE <<>>)
                \o (IF NonEmpty(d, "email") THEN <<"Has email">> ELSE <<>>)
                \o (IF NonEmpty(d, "page_created_date") THEN <<"Freshness">> ELSE <<>>)
                \o (IF quality THEN <<"Content quality">> ELSE <<>>)

\* Every sub-rule contributed to a candidate: its list has the eight entries;
\* the candidate before it triggered none and its list is empty
C28_Witness ==
    /\ HasReturned
    /\ Len(Returned.scoring_signals) = 8
    /\ Returned.confidence_score = 100
    /\ \E k \in DOMAIN scorer.earlier : scorer.earlier[k].confidence_score = 0

-----------------------------------------------------------------------------
(* Properties of the scheduler's jobs and of missing credentials, checked   *)
(* under SchedulerSpec                                                      *)

EnabledSource(source) ==
    CASE source = "facebook" -> task_scheduler.facebook_enabled
      [] source = "linkedin" -> task_scheduler.linkedin_enabled
      [] source = "google" -> task_scheduler.google_enabled

\* C29: after TaskScheduler.start a discovery job exists for a source if and
\* only if the source is enabled, and exactly one alert job exists, the batch
\* job when batch_mode is set and the instant job otherwise; only the job of an
\* enabled source ever runs a pass.
C29_JobsFollowConfiguration ==
    /\ task_scheduler.running =>
        /\ \A r \in Jobs :
                JobId(r) \in task_scheduler.jobs <=> EnabledSource(JobSource(r))
        /\ "batch_alerts" \in task_scheduler.jobs <=> batch_mode
        /\ "instant_alerts" \in task_scheduler.jobs <=> ~batch_mode
    /\ \A r \in Jobs : pass[r].pc # "idle" => EnabledSource(JobSource(r))

\* In batch mode, with Facebook enabled and Google disabled, the scheduler was
\* started, the Facebook job completed a pass and the alert job a poll
C29_Witness ==
    /\ task_scheduler.running
    /\ batch_mode
    /\ task_scheduler.facebook_enabled
    /\ ~task_scheduler.google_enabled
    /\ pass["job_facebook"].pc = "done"
    /\ pass["job_google"].pc = "idle"
    /\ poll.pc = "done"
    /\ poll.sent_ok # <<>>

MissingCredentials(r) ==
    /\ JobSource(r) \in {"google", "facebook"}
    /\ ~credentials[JobSource(r)]

\* C30: a pass of a source whose credentials are missing raises no error, has no
\* candidate, inserts no record and returns an empty list; a notifier call made
\* while the channels' credentials are missing delivers nothing and returns
\* without error, so the poll goes on.
C30_MissingCredentialsNoOp ==
    /\ [](\A r \in Jobs : MissingCredentials(r) =>
            /\ pass[r].pc \in {"idle", "history", "done"}
            /\ pass[r].exc = "none"
            /\ pass[r].results = <<>>
            /\ pass[r].discovered = <<>>
            /\ pass[r].last_add = NoAdd)
    /\ [](~credentials.alerts => delivered = {})
    /\ [][/\ \A r \in Jobs : (MissingCredentials(r) /\ pass'[r] # pass[r])
                                => businesses' = businesses
          /\ (~credentials.alerts /\ poll.pc = "send" /\ poll' # poll)
                => (poll'.pc = "mark" /\ delivered' = delivered)]_vars

\* Without the Google and the alert credentials the Google job completed a pass,
\* and a poll handed a record found by the Facebook job to the notifier and
\* completed
C30_Witness ==
    /\ ~credentials.google
    /\ ~credentials.alerts
    /\ pass["job_google"].pc = "done"
    /\ search_history > 0
    /\ businesses # <<>>
    /\ poll.pc = "done"
    /\ poll.sent_ok # <<>>

-----------------------------------------------------------------------------
(* Priority of the stored records, checked under ScorerSpec                *)

\* C35: when the minimum confidence threshold in force is 60 or more (60 is the
\* default), every stored record has priority medium or high, never low.
C35_NoLowPriorityStored ==
    get_min_confidence_score(min_score) >= 60 =>
        \A i \in Rows : businesses[i].priority \in {"medium", "high"}

\* With the default threshold a record scoring exactly 60, of a category without
\* high priority, is stored with priority medium
C35_Witness ==
    /\ min_score = NotConfigured
    /\ \E i \in Rows :
            /\ businesses[i].confidence_score = 60
            /\ businesses[i].priority = "medium"
            /\ category_priority(businesses[i].category, scorer.categories) # "high"

-----------------------------------------------------------------------------
(* The lists the passes return, over all passes, checked under Spec        *)

\* The identity of the candidate a pass has in hand
HandHash(p) == generate_hash(InHand(p).page_url)

\* C34: over all the passes run, one after the other or at the same time and
\* from any source, an identity (URL ignoring case) is in the list of newly
\* discovered records of at most one pass and at most once in it.  The lists of
\* the runners' latest passes share no identity and repeat none; a pass appends
\* an identity only in the step that inserts its row, no row of that identity
\* existing before, and rows are never removed, so a later pass cannot list it.
C34_ListedByOnePassOnce ==
    /\ [](\A r1, r2 \in Runners :
            LET urls1 == DiscoveredUrls(pass[r1])
                urls2 == DiscoveredUrls(pass[r2])
            IN  \A j \in DOMAIN urls1 : \A k \in DOMAIN urls2 :
                    generate_hash(urls1[j]) = generate_hash(urls2[k])
                        => (r1 = r2 /\ j = k))
    /\ [][/\ Len(businesses') >= Len(businesses)
          /\ \A i \in Rows : businesses'[i].hash = businesses[i].hash
          /\ \A r \in Runners :
                Len(pass'[r].discovered) > Len(pass[r].discovered) =>
                    /\ pass'[r].discovered =
                            Append(pass[r].discovered, Head(pass[r].results))
                    /\ \A i \in Rows : businesses[i].hash # HandHash(pass[r])
                    /\ Len(businesses') = Len(businesses) + 1
                    /\ businesses'[Len(businesses')].hash = HandHash(pass[r])]_vars

\* Two passes met on one identity: one inserted it and returned a list holding
\* it; the add_business of the other, for a candidate of the same identity,
\* returned False or raised, and that pass lists nothing
C34_Witness ==
    \E r1, r2 \in Runners :
        /\ r1 # r2
        /\ pass[r1].pc = "done"
        /\ pass[r1].discovered # <<>>
        /\ pass[r2].pc \in {"done", "raised"}
        /\ pass[r2].last_add.ret \in {"False", "raised"}
        /\ pass[r2].source # "none"
        /\ generate_hash(CandidatesOf(pass[r2].source)[pass[r2].last_add.c].page_url)
                = generate_hash(DiscoveredUrls(pass[r1])[1])
        /\ pass[r2].discovered = <<>>

-----------------------------------------------------------------------------
(* A dispatch poll and the records inserted while it runs, checked under    *)
(* Spec                                                                     *)

\* The ids of the snapshot the poll read at its start
Snapshot == {poll.businesses[k] : k \in DOMAIN poll.businesses}

\* The ids of the records the poll has handed to the notifier so far
HandedInPoll ==
    {poll.businesses[k] : k \in DOMAIN poll.businesses \cap DOMAIN poll.sent_ok}

\* C32: a dispatch poll marks only records of the pending snapshot it read at its
\* start, and marks a record only after handing it to the notifier in the same
\* poll; a record a pass inserts after the snapshot was read is inserted with
\* alerted false, is left unmarked by the poll, and is in the pending snapshot
\* the next poll reads.
C32_PollMarksOnlyItsSnapshot ==
    [][/\ \A i \in Rows :
            (~businesses[i].alerted /\ businesses'[i].alerted) =>
                /\ Polling
                /\ i \in Snapshot
                /\ i \in HandedInPoll
       /\ \A i \in 1..Len(businesses') :
            i \notin Rows => ~businesses'[i].alerted
       /\ started'.polls > started.polls =>
            \A i \in Rows :
                ~businesses[i].alerted
                    => \E k \in DOMAIN poll'.businesses : poll'.businesses[k] = i]_vars

\* The first poll has ended with every record of its snapshot marked, and a
\* record that was inserted after it read the snapshot is still unmarked
C32_Witness ==
    /\ started.polls = 1
    /\ poll.pc = "done"
    /\ Snapshot # {}
    /\ \A i \in Snapshot : businesses[i].alerted
    /\ \E i \in Rows : i \notin Snapshot /\ ~businesses[i].alerted

-----------------------------------------------------------------------------
(* Progress of the dispatch polls, checked under LiveSpec                   *)

\* The most records the store can hold: one per identity among the candidates
MaxRecords == Cardinality({generate_hash(url) : url \in CandidateUrls})

\* C33: when the alert job keeps firing and its polls run to their end, every
\* stored record eventually has alerted = true, in instant mode and in batch
\* mode, while the passes of the discovery jobs insert records.
C33_EveryRecordEventuallyMarked ==
    \A i \in 1..MaxRecords : (i \in Rows) ~> (i \in Rows /\ businesses[i].alerted)

\* Two records are marked, the second one by a later poll than the first: the
\* poll that has just ended had only the second in its snapshot
C33_Witness ==
    /\ Len(businesses) = 2
    /\ \A i \in Rows : businesses[i].alerted
    /\ poll.pc = "done"
    /\ Snapshot = {2}

-----------------------------------------------------------------------------
(* Handoffs to the notifier over the lifetime of the store, checked under   *)
(* ManualSpec                                                               *)

\* C31 (as claimed): every stored record is handed to the notifier at most once,
\* counting the alerts run_manual_discovery sends for the records its passes
\* return and the handoffs of the instant or batch dispatch polls.
C31_HandedAtMostOnce ==
    \A i \in Rows : handed[i] <= 1

=============================================================================
